---- MODULE Spec2Model ----
(***************************************************************************)
(* Order lifecycle engine of the FunsDiia Telegram bot (src/bot.py): the   *)
(* JSON order ledger, the hourly rate limiter, the per-client session      *)
(* (context.user_data) and the buyer / operator handlers.                  *)
(*                                                                         *)
(* Time is counted in ticks of one hour.  Python None is the sentinel      *)
(* NoneS for string-valued slots and NoneT for text-valued slots (texts    *)
(* are sequences of one-character strings, so that str.strip is computed). *)
(***************************************************************************)
EXTENDS Integers, Sequences, FiniteSets, TLC

\* ---------------------------------------------------------------- bounds
\* Largest clock value reached (ticks).
MaxTime == 1
\* Largest number of rows the ledger file grows to.
MaxOrders == 3

\* ------------------------------------------------------------- constants
\* MAX_REQUESTS_PER_HOUR, read from the environment (the default is 10).
MAX_REQUESTS_PER_HOUR == 2
\* timedelta(hours=1) in ticks.
Hour == 1
\* ADMIN_CHAT_ID, read from the environment, scaled to a small chat id.
ADMIN_CHAT_ID == -100

AWAITING_FIO == "awaiting_fio"
AWAITING_DOB == "awaiting_dob"
AWAITING_PHOTO == "awaiting_photo"

NoneS == "None"
NoneT == <<"None">>

\* Telegram user ids of the buyers; a private chat has its user's id.
Clients == {1, 2}

\* message.from_user.username (client 2 has none).
Username(c) == IF c = 1 THEN "jane" ELSE NoneS

\* The tier catalogue.
TARIFFS ==
  [k \in {"1_day", "30_days", "90_days", "180_days", "forever"} |->
     CASE k = "1_day" -> "1 day - 20"
       [] k = "30_days" -> "30 days - 70"
       [] k = "90_days" -> "90 days - 150"
       [] k = "180_days" -> "180 days - 190"
       [] OTHER -> "forever - 250"]

\* TARIFFS.get(key)
TariffsGet(key) == IF key \in DOMAIN TARIFFS THEN TARIFFS[key] ELSE NoneS

\* Python truthiness of an optional string / an optional text.
TruthyS(s) == s # NoneS /\ s # ""
TruthyT(t) == t # NoneT /\ t # <<>>

\* ------------------------------------------------------------ the inputs
\* Callback data matching the registered pattern "^tariff:", as the pieces
\* around the first ":".
CallbackData == {<<"tariff", "30_days">>, <<"tariff", "bogus">>}

\* Texts a buyer types: a name when asked for the name, a date otherwise.
MsgTexts(order_state) ==
  IF order_state = AWAITING_FIO THEN {<<" ", "J", "D">>} ELSE {<<"9", "0", " ">>}

MediaKinds == {"photo", "document"}

\* First command argument as typed, and whole argument lists.
ArgIds == {<<"1">>, <<"0", "2">>, <<"x", "1">>}
ArgLists == {<< <<"1">> >>} \cup {<<a, <<"z">>>> : a \in ArgIds}

\* Chats a command can come from.
Chats == {ADMIN_CHAT_ID, 1}

\* ------------------------------------------------------------- utilities
\* A character is a string: an ASCII character is itself ("\t", "\n", "\r"
\* and "\f" are the tab, the line feed, the carriage return and the form
\* feed), any other character is "U+" and its code point in hexadecimal.

\* The characters str.strip() and int() take as whitespace (str.isspace).
WhiteSpace ==
  {"\t", "\n", "U+000B", "\f", "\r", "U+001C", "U+001D", "U+001E", "U+001F",
   " ", "U+0085", "U+00A0", "U+1680", "U+2000", "U+2001", "U+2002", "U+2003",
   "U+2004", "U+2005", "U+2006", "U+2007", "U+2008", "U+2009", "U+200A",
   "U+2028", "U+2029", "U+202F", "U+205F", "U+3000"}

IsSpace(ch) == ch \in WhiteSpace

RECURSIVE LStrip(_)
LStrip(t) == IF t # <<>> /\ IsSpace(Head(t)) THEN LStrip(Tail(t)) ELSE t

RECURSIVE RStrip(_)
RStrip(t) ==
  IF t # <<>> /\ IsSpace(t[Len(t)]) THEN RStrip(SubSeq(t, 1, Len(t) - 1)) ELSE t

\* str.strip()
Strip(t) == RStrip(LStrip(t))

\* The characters int() takes as decimal digits (Unicode category Nd), in
\* runs of ten from the digit zero to the digit nine.
DecimalDigits ==
  <<<<"0", "1", "2", "3", "4", "5", "6", "7", "8", "9">>,
    <<"U+0660", "U+0661", "U+0662", "U+0663", "U+0664",
      "U+0665", "U+0666", "U+0667", "U+0668", "U+0669">>,
    <<"U+06F0", "U+06F1", "U+06F2", "U+06F3", "U+06F4",
      "U+06F5", "U+06F6", "U+06F7", "U+06F8", "U+06F9">>,
    <<"U+07C0", "U+07C1", "U+07C2", "U+07C3", "U+07C4",
      "U+07C5", "U+07C6", "U+07C7", "U+07C8", "U+07C9">>,
    <<"U+0966", "U+0967", "U+0968", "U+0969", "U+096A",
      "U+096B", "U+096C", "U+096D", "U+096E", "U+096F">>,
    <<"U+09E6", "U+09E7", "U+09E8", "U+09E9", "U+09EA",
      "U+09EB", "U+09EC", "U+09ED", "U+09EE", "U+09EF">>,
    <<"U+0A66", "U+0A67", "U+0A68", "U+0A69", "U+0A6A",
      "U+0A6B", "U+0A6C", "U+0A6D", "U+0A6E", "U+0A6F">>,
    <<"U+0AE6", "U+0AE7", "U+0AE8", "U+0AE9", "U+0AEA",
      "U+0AEB", "U+0AEC", "U+0AED", "U+0AEE", "U+0AEF">>,
    <<"U+0B66", "U+0B67", "U+0B68", "U+0B69", "U+0B6A",
      "U+0B6B", "U+0B6C", "U+0B6D", "U+0B6E", "U+0B6F">>,
    <<"U+0BE6", "U+0BE7", "U+0BE8", "U+0BE9", "U+0BEA",
      "U+0BEB", "U+0BEC", "U+0BED", "U+0BEE", "U+0BEF">>,
    <<"U+0C66", "U+0C67", "U+0C68", "U+0C69", "U+0C6A",
      "U+0C6B", "U+0C6C", "U+0C6D", "U+0C6E", "U+0C6F">>,
    <<"U+0CE6", "U+0CE7", "U+0CE8", "U+0CE9", "U+0CEA",
      "U+0CEB", "U+0CEC", "U+0CED", "U+0CEE", "U+0CEF">>,
    <<"U+0D66", "U+0D67", "U+0D68", "U+0D69", "U+0D6A",
      "U+0D6B", "U+0D6C", "U+0D6D", "U+0D6E", "U+0D6F">>,
    <<"U+0DE6", "U+0DE7", "U+0DE8", "U+0DE9", "U+0DEA",
      "U+0DEB", "U+0DEC", "U+0DED", "U+0DEE", "U+0DEF">>,
    <<"U+0E50", "U+0E51", "U+0E52", "U+0E53", "U+0E54",
      "U+0E55", "U+0E56", "U+0E57", "U+0E58", "U+0E59">>,
    <<"U+0ED0", "U+0ED1", "U+0ED2", "U+0ED3", "U+0ED4",
      "U+0ED5", "U+0ED6", "U+0ED7", "U+0ED8", "U+0ED9">>,
    <<"U+0F20", "U+0F21", "U+0F22", "U+0F23", "U+0F24",
      "U+0F25", "U+0F26", "U+0F27", "U+0F28", "U+0F29">>,
    <<"U+1040", "U+1041", "U+1042", "U+1043", "U+1044",
      "U+1045", "U+1046", "U+1047", "U+1048", "U+1049">>,
    <<"U+1090", "U+1091", "U+1092", "U+1093", "U+1094",
      "U+1095", "U+1096", "U+1097", "U+1098", "U+1099">>,
    <<"U+17E0", "U+17E1", "U+17E2", "U+17E3", "U+17E4",
      "U+17E5", "U+17E6", "U+17E7", "U+17E8", "U+17E9">>,
    <<"U+1810", "U+1811", "U+1812", "U+1813", "U+1814",
      "U+1815", "U+1816", "U+1817", "U+1818", "U+1819">>,
    <<"U+1946", "U+1947", "U+1948", "U+1949", "U+194A",
      "U+194B", "U+194C", "U+194D", "U+194E", "U+194F">>,
    <<"U+19D0", "U+19D1", "U+19D2", "U+19D3", "U+19D4",
      "U+19D5", "U+19D6", "U+19D7", "U+19D8", "U+19D9">>,
    <<"U+1A80", "U+1A81", "U+1A82", "U+1A83", "U+1A84",
      "U+1A85", "U+1A86", "U+1A87", "U+1A88", "U+1A89">>,
    <<"U+1A90", "U+1A91", "U+1A92", "U+1A93", "U+1A94",
      "U+1A95", "U+1A96", "U+1A97", "U+1A98", "U+1A99">>,
    <<"U+1B50", "U+1B51", "U+1B52", "U+1B53", "U+1B54",
      "U+1B55", "U+1B56", "U+1B57", "U+1B58", "U+1B59">>,
    <<"U+1BB0", "U+1BB1", "U+1BB2", "U+1BB3", "U+1BB4",
      "U+1BB5", "U+1BB6", "U+1BB7", "U+1BB8", "U+1BB9">>,
    <<"U+1C40", "U+1C41", "U+1C42", "U+1C43", "U+1C44",
      "U+1C45", "U+1C46", "U+1C47", "U+1C48", "U+1C49">>,
    <<"U+1C50", "U+1C51", "U+1C52", "U+1C53", "U+1C54",
      "U+1C55", "U+1C56", "U+1C57", "U+1C58", "U+1C59">>,
    <<"U+A620", "U+A621", "U+A622", "U+A623", "U+A624",
      "U+A625", "U+A626", "U+A627", "U+A628", "U+A629">>,
    <<"U+A8D0", "U+A8D1", "U+A8D2", "U+A8D3", "U+A8D4",
      "U+A8D5", "U+A8D6", "U+A8D7", "U+A8D8", "U+A8D9">>,
    <<"U+A900", "U+A901", "U+A902", "U+A903", "U+A904",
      "U+A905", "U+A906", "U+A907", "U+A908", "U+A909">>,
    <<"U+A9D0", "U+A9D1", "U+A9D2", "U+A9D3", "U+A9D4",
      "U+A9D5", "U+A9D6", "U+A9D7", "U+A9D8", "U+A9D9">>,
    <<"U+A9F0", "U+A9F1", "U+A9F2", "U+A9F3", "U+A9F4",
      "U+A9F5", "U+A9F6", "U+A9F7", "U+A9F8", "U+A9F9">>,
    <<"U+AA50", "U+AA51", "U+AA52", "U+AA53", "U+AA54",
      "U+AA55", "U+AA56", "U+AA57", "U+AA58", "U+AA59">>,
    <<"U+ABF0", "U+ABF1", "U+ABF2", "U+ABF3", "U+ABF4",
      "U+ABF5", "U+ABF6", "U+ABF7", "U+ABF8", "U+ABF9">>,
    <<"U+FF10", "U+FF11", "U+FF12", "U+FF13", "U+FF14",
      "U+FF15", "U+FF16", "U+FF17", "U+FF18", "U+FF19">>,
    <<"U+104A0", "U+104A1", "U+104A2", "U+104A3", "U+104A4",
      "U+104A5", "U+104A6", "U+104A7", "U+104A8", "U+104A9">>,
    <<"U+10D30", "U+10D31", "U+10D32", "U+10D33", "U+10D34",
      "U+10D35", "U+10D36", "U+10D37", "U+10D38", "U+10D39">>,
    <<"U+11066", "U+11067", "U+11068", "U+11069", "U+1106A",
      "U+1106B", "U+1106C", "U+1106D", "U+1106E", "U+1106F">>,
    <<"U+110F0", "U+110F1", "U+110F2", "U+110F3", "U+110F4",
      "U+110F5", "U+110F6", "U+110F7", "U+110F8", "U+110F9">>,
    <<"U+11136", "U+11137", "U+11138", "U+11139", "U+1113A",
      "U+1113B", "U+1113C", "U+1113D", "U+1113E", "U+1113F">>,
    <<"U+111D0", "U+111D1", "U+111D2", "U+111D3", "U+111D4",
      "U+111D5", "U+111D6", "U+111D7", "U+111D8", "U+111D9">>,
    <<"U+112F0", "U+112F1", "U+112F2", "U+112F3", "U+112F4",
      "U+112F5", "U+112F6", "U+112F7", "U+112F8", "U+112F9">>,
    <<"U+11450", "U+11451", "U+11452", "U+11453", "U+11454",
      "U+11455", "U+11456", "U+11457", "U+11458", "U+11459">>,
    <<"U+114D0", "U+114D1", "U+114D2", "U+114D3", "U+114D4",
      "U+114D5", "U+114D6", "U+114D7", "U+114D8", "U+114D9">>,
    <<"U+11650", "U+11651", "U+11652", "U+11653", "U+11654",
      "U+11655", "U+11656", "U+11657", "U+11658", "U+11659">>,
    <<"U+116C0", "U+116C1", "U+116C2", "U+116C3", "U+116C4",
      "U+116C5", "U+116C6", "U+116C7", "U+116C8", "U+116C9">>,
    <<"U+11730", "U+11731", "U+11732", "U+11733", "U+11734",
      "U+11735", "U+11736", "U+11737", "U+11738", "U+11739">>,
    <<"U+118E0", "U+118E1", "U+118E2", "U+118E3", "U+118E4",
      "U+118E5", "U+118E6", "U+118E7", "U+118E8", "U+118E9">>,
    <<"U+11950", "U+11951", "U+11952", "U+11953", "U+11954",
      "U+11955", "U+11956", "U+11957", "U+11958", "U+11959">>,
    <<"U+11C50", "U+11C51", "U+11C52", "U+11C53", "U+11C54",
      "U+11C55", "U+11C56", "U+11C57", "U+11C58", "U+11C59">>,
    <<"U+11D50", "U+11D51", "U+11D52", "U+11D53", "U+11D54",
      "U+11D55", "U+11D56", "U+11D57", "U+11D58", "U+11D59">>,
    <<"U+11DA0", "U+11DA1", "U+11DA2", "U+11DA3", "U+11DA4",
      "U+11DA5", "U+11DA6", "U+11DA7", "U+11DA8", "U+11DA9">>,
    <<"U+16A60", "U+16A61", "U+16A62", "U+16A63", "U+16A64",
      "U+16A65", "U+16A66", "U+16A67", "U+16A68", "U+16A69">>,
    <<"U+16AC0", "U+16AC1", "U+16AC2", "U+16AC3", "U+16AC4",
      "U+16AC5", "U+16AC6", "U+16AC7", "U+16AC8", "U+16AC9">>,
    <<"U+16B50", "U+16B51", "U+16B52", "U+16B53", "U+16B54",
      "U+16B55", "U+16B56", "U+16B57", "U+16B58", "U+16B59">>,
    <<"U+1D7CE", "U+1D7CF", "U+1D7D0", "U+1D7D1", "U+1D7D2",
      "U+1D7D3", "U+1D7D4", "U+1D7D5", "U+1D7D6", "U+1D7D7">>,
    <<"U+1D7D8", "U+1D7D9", "U+1D7DA", "U+1D7DB", "U+1D7DC",
      "U+1D7DD", "U+1D7DE", "U+1D7DF", "U+1D7E0", "U+1D7E1">>,
    <<"U+1D7E2", "U+1D7E3", "U+1D7E4", "U+1D7E5", "U+1D7E6",
      "U+1D7E7", "U+1D7E8", "U+1D7E9", "U+1D7EA", "U+1D7EB">>,
    <<"U+1D7EC", "U+1D7ED", "U+1D7EE", "U+1D7EF", "U+1D7F0",
      "U+1D7F1", "U+1D7F2", "U+1D7F3", "U+1D7F4", "U+1D7F5">>,
    <<"U+1D7F6", "U+1D7F7", "U+1D7F8", "U+1D7F9", "U+1D7FA",
      "U+1D7FB", "U+1D7FC", "U+1D7FD", "U+1D7FE", "U+1D7FF">>,
    <<"U+1E140", "U+1E141", "U+1E142", "U+1E143", "U+1E144",
      "U+1E145", "U+1E146", "U+1E147", "U+1E148", "U+1E149">>,
    <<"U+1E2F0", "U+1E2F1", "U+1E2F2", "U+1E2F3", "U+1E2F4",
      "U+1E2F5", "U+1E2F6", "U+1E2F7", "U+1E2F8", "U+1E2F9">>,
    <<"U+1E950", "U+1E951", "U+1E952", "U+1E953", "U+1E954",
      "U+1E955", "U+1E956", "U+1E957", "U+1E958", "U+1E959">>,
    <<"U+1FBF0", "U+1FBF1", "U+1FBF2", "U+1FBF3", "U+1FBF4",
      "U+1FBF5", "U+1FBF6", "U+1FBF7", "U+1FBF8", "U+1FBF9">>>>

Digits == {DecimalDigits[r][k] : r \in DOMAIN DecimalDigits, k \in 1..10}

\* The value of each decimal digit
DigitValues ==
  [ch \in Digits |->
     CHOOSE v \in 0..9 : \E r \in DOMAIN DecimalDigits : DecimalDigits[r][v + 1] = ch]

DigitVal(ch) == DigitValues[ch]

RECURSIVE DecVal(_)
DecVal(t) ==
  IF t = <<>> THEN 0 ELSE 10 * DecVal(SubSeq(t, 1, Len(t) - 1)) + DigitVal(t[Len(t)])

IsDigit(ch) == ch \in Digits

\* int(s.strip()): whitespace around is dropped, then an optional sign and
\* decimal digits, single underscores allowed between digits.  ok is FALSE
\* where Python raises ValueError.
ParseInt(t) ==
  LET s == Strip(t)
      signed == s # <<>> /\ s[1] \in {"+", "-"}
      body == IF signed THEN Tail(s) ELSE s
      n == Len(body)
      wellformed ==
        /\ n > 0
        /\ \A i \in 1..n : body[i] \in Digits \/ body[i] = "_"
        /\ body[1] \in Digits /\ body[n] \in Digits
        /\ \A i \in 1..(n - 1) : ~(body[i] = "_" /\ body[i + 1] = "_")
      magnitude == DecVal(SelectSeq(body, IsDigit))
  IN IF wellformed
       THEN [ok |-> TRUE, val |-> IF signed /\ s[1] = "-" THEN 0 - magnitude ELSE magnitude]
       ELSE [ok |-> FALSE, val |-> 0]

\* -------------------------------------------------------------- the state
VARIABLES
  file,       \* DATA_FILE: [valid, rows]; valid is FALSE for content json.load rejects
  user_data,  \* context.user_data of each client
  now,        \* the clock
  media,      \* handle_all_media of each client: where it is, and its locals
  admin,      \* the operator command in flight
  faults,     \* the failures the environment may produce in this run
  scope,      \* the updates the bot is sent in this run
  last        \* what the latest handler step did: its calls, replies and sends

vars == <<file, user_data, now, media, admin, faults, scope, last>>

\* ------------------------------------------------- what the environment does
\* Reading DATA_FILE: "fail" is open() or json.load raising.
LoadOutcomes == IF "load" \in faults THEN {"ok", "fail"} ELSE {"ok"}
\* Writing DATA_FILE: open(.., "w") raising leaves the file as it was, a
\* failure after it leaves a truncated file.
SaveOutcomes == IF "save" \in faults THEN {"ok", "open_fails", "write_fails"} ELSE {"ok"}
\* An awaited Telegram call: FALSE is the call raising.
NetOutcomes == IF "net" \in faults THEN BOOLEAN ELSE {TRUE}
\* What the handler has told when it ends in an awaited reply: the reply, or
\* nothing ("error") when the reply raised.
Replying(reply) == {IF told THEN reply ELSE "error" : told \in NetOutcomes}
\* A reply inside a try whose except branch replies with failure.
ReplyingOrElse(reply, failure) ==
  {IF ack THEN reply ELSE e : ack \in NetOutcomes, e \in Replying(failure)}
\* update.message.reply_text(..): update.message is None when the update is an
\* edited message (CommandHandler and MessageHandler take edited messages as
\* well as new ones), and the call then raises AttributeError.
MessageReplying(edited, reply) == IF edited THEN {"error"} ELSE Replying(reply)
MessageReplyingOrElse(edited, reply, failure) ==
  IF edited THEN {"error"} ELSE ReplyingOrElse(reply, failure)

\* ------------------------------------------------------------ the ledger
NoneI == 0 - 1
NoRow == [client_id |-> NoneS]
EmptyFile == [valid |-> TRUE, rows |-> <<>>]
TruncatedFile == [valid |-> FALSE, rows |-> <<>>]

\* now_iso_with_tz() and parse_iso_datetime(): the ISO text of an instant is
\* the instant's tick under the tag "T"; a text of any other shape, and None,
\* parse to None (NoneI).
now_iso_with_tz(t) == <<"T", t>>
parse_iso_datetime(s) == IF Len(s) = 2 /\ s[1] = "T" THEN s[2] ELSE NoneI

\* row.get(key) of a timestamp slot
GetTime(row, key) == IF key \in DOMAIN row THEN row[key] ELSE NoneT

load_orders(f, ld) == IF ld = "ok" /\ f.valid THEN f.rows ELSE <<>>

save_orders(f, orders, sv) ==
  CASE sv = "ok" -> [ok |-> TRUE, file |-> [valid |-> TRUE, rows |-> orders]]
    [] sv = "open_fails" -> [ok |-> FALSE, file |-> f]
    [] OTHER -> [ok |-> FALSE, file |-> TruncatedFile]

\* for row in reversed(orders): the index of the first match, 0 for none
RECURSIVE ReversedScan(_, _, _)
ReversedScan(orders, cid, i) ==
  IF i = 0 THEN 0
  ELSE IF orders[i].client_id = cid THEN i
  ELSE ReversedScan(orders, cid, i - 1)

\* for row in orders: a scan from the oldest row on
RECURSIVE ForwardScan(_, _, _)
ForwardScan(orders, cid, i) ==
  IF i > Len(orders) THEN 0
  ELSE IF orders[i].client_id = cid THEN i
  ELSE ForwardScan(orders, cid, i + 1)

\* get_last_order_for_client returning the client's oldest row
get_last_order_for_client_oldest(f, client_id, ld) ==
  LET orders == load_orders(f, ld)
      i == ForwardScan(orders, ToString(client_id), 1)
  IN IF i = 0 THEN NoRow ELSE orders[i]

get_last_order_for_client(f, client_id, ld) ==
  LET orders == load_orders(f, ld)
      i == ReversedScan(orders, ToString(client_id), Len(orders))
  IN IF i = 0 THEN NoRow ELSE orders[i]

get_order_status(f, client_id, ld) ==
  LET row == get_last_order_for_client(f, client_id, ld)
  IN IF row = NoRow THEN NoneS ELSE row.status

\* row["status"] = new_status alone
SetStatusOnly(row, new_status, t) == [row EXCEPT !.status = new_status]

\* row["status"] = new_status; row["status_updated_at"] = now_iso_with_tz()
SetStatus(row, new_status, t) ==
  [k \in DOMAIN row \cup {"status_updated_at"} |->
     IF k = "status" THEN new_status
     ELSE IF k = "status_updated_at" THEN now_iso_with_tz(t)
     ELSE row[k]]

\* update_order_status changing the client's oldest row
update_order_status_oldest(f, client_id, new_status, t, ld, sv) ==
  LET orders == load_orders(f, ld)
      i == ForwardScan(orders, ToString(client_id), 1)
  IN IF i = 0 THEN [ok |-> FALSE, file |-> f]
     ELSE save_orders(f, [orders EXCEPT ![i] = SetStatus(orders[i], new_status, t)], sv)

\* update_order_status refusing to write over completed or waiting_confirm
update_order_status_forward_only(f, client_id, new_status, t, ld, sv) ==
  LET orders == load_orders(f, ld)
      i == ReversedScan(orders, ToString(client_id), Len(orders))
  IN IF i = 0 \/ (i > 0 /\ orders[i].status \in {"completed", "waiting_confirm"}
                         /\ new_status = "waiting_payment")
       THEN [ok |-> FALSE, file |-> f]
     ELSE save_orders(f, [orders EXCEPT ![i] = SetStatus(orders[i], new_status, t)], sv)

update_order_status(f, client_id, new_status, t, ld, sv) ==
  LET orders == load_orders(f, ld)
      i == ReversedScan(orders, ToString(client_id), Len(orders))
  IN IF i = 0 THEN [ok |-> FALSE, file |-> f]
     ELSE save_orders(f, [orders EXCEPT ![i] = SetStatus(orders[i], new_status, t)], sv)

\* add_request storing the name and the date in each other's slot
add_request_swapped(f, client_id, username, tariff_key, fio, dob, t, ld, sv) ==
  LET orders == load_orders(f, ld)
      new_request ==
        [client_id |-> ToString(client_id),
         username |-> IF TruthyS(username) THEN username ELSE "nemaie",
         status |-> "waiting_req",
         created_at |-> now_iso_with_tz(t),
         tariff_key |-> tariff_key,
         tariff_text |-> IF TruthyS(tariff_key) THEN TariffsGet(tariff_key) ELSE NoneS,
         fio |-> dob,
         dob |-> fio]
  IN save_orders(f, Append(orders, new_request), sv)

add_request(f, client_id, username, tariff_key, fio, dob, t, ld, sv) ==
  LET orders == load_orders(f, ld)
      new_request ==
        [client_id |-> ToString(client_id),
         username |-> IF TruthyS(username) THEN username ELSE "nemaie",
         status |-> "waiting_req",
         created_at |-> now_iso_with_tz(t),
         tariff_key |-> tariff_key,
         tariff_text |-> IF TruthyS(tariff_key) THEN TariffsGet(tariff_key) ELSE NoneS,
         fio |-> fio,
         dob |-> dob]
  IN save_orders(f, Append(orders, new_request), sv)

\* check_request_limit counting a row whose created_at does not parse
RECURSIVE CountRecentOrUnparsed(_, _, _, _)
CountRecentOrUnparsed(orders, cid_str, one_hour_ago, i) ==
  IF i > Len(orders) THEN 0
  ELSE LET row == orders[i]
           parsed == parse_iso_datetime(GetTime(row, "created_at"))
       IN (IF row.client_id = cid_str /\ (parsed = NoneI \/ parsed > one_hour_ago)
             THEN 1 ELSE 0)
          + CountRecentOrUnparsed(orders, cid_str, one_hour_ago, i + 1)

check_request_limit_counting_unparsed(f, client_id, t, ld) ==
  LET orders == load_orders(f, ld)
      one_hour_ago == t - Hour
  IN CountRecentOrUnparsed(orders, ToString(client_id), one_hour_ago, 1)
       < MAX_REQUESTS_PER_HOUR

\* The for loop of check_request_limit over orders[i..]
RECURSIVE CountRecent(_, _, _, _)
CountRecent(orders, cid_str, one_hour_ago, i) ==
  IF i > Len(orders) THEN 0
  ELSE LET row == orders[i]
           parsed == parse_iso_datetime(GetTime(row, "created_at"))
       IN (IF row.client_id = cid_str /\ parsed # NoneI /\ parsed > one_hour_ago
             THEN 1 ELSE 0)
          + CountRecent(orders, cid_str, one_hour_ago, i + 1)

\* check_request_limit counting a row created exactly an hour ago
RECURSIVE CountRecentInclusive(_, _, _, _)
CountRecentInclusive(orders, cid_str, one_hour_ago, i) ==
  IF i > Len(orders) THEN 0
  ELSE LET row == orders[i]
           parsed == parse_iso_datetime(GetTime(row, "created_at"))
       IN (IF row.client_id = cid_str /\ parsed # NoneI /\ parsed >= one_hour_ago
             THEN 1 ELSE 0)
          + CountRecentInclusive(orders, cid_str, one_hour_ago, i + 1)

check_request_limit_inclusive(f, client_id, t, ld) ==
  LET orders == load_orders(f, ld)
      one_hour_ago == t - Hour
  IN CountRecentInclusive(orders, ToString(client_id), one_hour_ago, 1)
       < MAX_REQUESTS_PER_HOUR

check_request_limit(f, client_id, t, ld) ==
  LET orders == load_orders(f, ld)
      one_hour_ago == t - Hour
  IN CountRecent(orders, ToString(client_id), one_hour_ago, 1) < MAX_REQUESTS_PER_HOUR

\* ----------------------------------------------------------- the session
\* context.user_data after clear(): every .get() gives None.
ClearedUserData ==
  [order_state |-> NoneS, selected_tariff_key |-> NoneS, fio |-> NoneT, dob |-> NoneT]

IdleMedia == [pc |-> "idle", status |-> NoneS]
IdleAdmin == [pc |-> "idle", cid |-> 0, edited |-> FALSE]

\* What a handler step did: the handler, the client it concerns, the reply it
\* gave, the number of media it forwarded to the operator channel, the number
\* of messages it sent to the client, and the ledger call it made (call is
\* the function, upd the status it was to write, ok its result, old the
\* status of the client's current row before it).
Log(op, cid, reply, fwd, sent, call, upd, ok, old) ==
  [op |-> op, cid |-> cid, reply |-> reply, fwd |-> fwd, sent |-> sent,
   call |-> call, upd |-> upd, ok |-> ok, old |-> old]

Said(op, cid, reply) == Log(op, cid, reply, 0, 0, NoneS, NoneS, FALSE, NoneS)

\* Handlers of different updates running side by side
ConcurrentDispatch == TRUE

\* Application.builder().token(TOKEN).build() leaves concurrent_updates off and
\* every handler is registered blocking: run_polling handles one update at a
\* time, the next one only after the handler of the previous one has returned.
CanDispatch == (\A c \in Clients : media[c].pc = "idle") /\ admin.pc = "idle"

\* Commands as the operator gives them, those of them that name client c, and
\* commands from any chat with any argument list.
OperatorCommands == {<<ADMIN_CHAT_ID, <<a, <<"z">>>>>> : a \in {<<"1">>, <<"0", "2">>}}
CommandsFor(c) == {cmd \in OperatorCommands : ParseInt(cmd[2][1]).val = c}
AnyCommands == {<<chat, args>> : chat \in Chats, args \in ArgLists}

\* The runs explored, each by what DATA_FILE holds when main() starts (the
\* clients who placed an order in an earlier run and send nothing in this
\* one) and by the updates the bot is sent: who presses buttons and writes,
\* which callback data arrives, whether media arrives, whether sessions are
\* reset (/start, a restart of the process), whether texts and commands
\* arrive as new messages only or as edited messages too, and which commands
\* arrive.
\*   two buyers placing orders side by side;
\*   one buyer going through an order with the operator answering, beside
\*   the order of a client who sends nothing;
\*   commands of any kind arriving while no buyer is there;
\*   one buyer sending anything a buyer can send;
\*   one buyer placing orders on a DATA_FILE that already holds a row of
\*   theirs whose created_at is not an ISO text, or is absent.
Scopes ==
  {[earlier |-> <<>>, legacy |-> <<>>, buyers |-> {1, 2},
    data |-> {<<"tariff", "30_days">>},
    media |-> FALSE, resets |-> FALSE, edits |-> {FALSE}, commands |-> {}],
   [earlier |-> <<2>>, legacy |-> <<>>, buyers |-> {1},
    data |-> {<<"tariff", "30_days">>},
    media |-> TRUE, resets |-> FALSE, edits |-> {FALSE},
    commands |-> CommandsFor(1)],
   [earlier |-> <<2>>, legacy |-> <<>>, buyers |-> {}, data |-> {},
    media |-> FALSE, resets |-> FALSE, edits |-> BOOLEAN,
    commands |-> AnyCommands],
   [earlier |-> <<>>, legacy |-> <<>>, buyers |-> {1}, data |-> CallbackData,
    media |-> TRUE, resets |-> TRUE, edits |-> BOOLEAN, commands |-> {}],
   [earlier |-> <<>>, legacy |-> <<"malformed">>, buyers |-> {1},
    data |-> {<<"tariff", "30_days">>},
    media |-> FALSE, resets |-> FALSE, edits |-> {FALSE}, commands |-> {}],
   [earlier |-> <<>>, legacy |-> <<"missing">>, buyers |-> {1},
    data |-> {<<"tariff", "30_days">>},
    media |-> FALSE, resets |-> FALSE, edits |-> {FALSE}, commands |-> {}]}

\* DATA_FILE as main() finds it: absent, or left by an earlier run in which
\* the clients cs placed their orders.
RECURSIVE EarlierFile(_)
EarlierFile(cs) ==
  IF cs = <<>> THEN EmptyFile
  ELSE add_request(EarlierFile(SubSeq(cs, 1, Len(cs) - 1)), cs[Len(cs)],
                   Username(cs[Len(cs)]), "30_days", <<"J", "D">>, <<"9", "0">>,
                   0, "ok", "ok").file

\* A row of client 1 that add_request did not write as it does now: its
\* created_at is a text datetime.fromisoformat rejects, or the row has no
\* created_at at all.
LegacyRow(kind) ==
  LET row == EarlierFile(<<1>>).rows[1]
  IN IF kind = "malformed" THEN [row EXCEPT !.created_at = <<"x">>]
     ELSE [k \in DOMAIN row \ {"created_at"} |-> row[k]]

\* DATA_FILE as main() finds it: the legacy rows, then the earlier orders.
StartFile(sc) ==
  [valid |-> TRUE,
   rows |-> [j \in 1..Len(sc.legacy) |-> LegacyRow(sc.legacy[j])]
              \o EarlierFile(sc.earlier).rows]

Started(fs) ==
  /\ scope \in Scopes
  /\ file = StartFile(scope)
  /\ user_data = [c \in Clients |-> ClearedUserData]
  /\ now = 0
  /\ media = [c \in Clients |-> IdleMedia]
  /\ admin = IdleAdmin
  /\ faults = fs
  /\ last = Said("main", 0, "started")

Init == Started({})

InitNet == Started({"net"})
InitUnreadable == Started({"load"})
InitFaulty == Started({"net", "load", "save"})

\* ------------------------------------------------------------ the handlers
\* The clock advances, also while a handler awaits.
Tick ==
  /\ now < MaxTime
  /\ now' = now + 1
  /\ last' = Said("clock", 0, "tick")
  /\ UNCHANGED <<file, user_data, media, admin, faults, scope>>

\* The process is restarted: user_data is lost, DATA_FILE stays.
Restart ==
  /\ scope.resets
  /\ CanDispatch
  /\ user_data' = [c \in Clients |-> ClearedUserData]
  /\ last' = Said("main", 0, "started")
  /\ UNCHANGED <<file, now, media, admin, faults, scope>>

\* /start, as a new message or as an edited one: user_data.clear(), then the
\* reply through update.message.
start(c, edited) ==
  /\ CanDispatch
  /\ user_data' = [user_data EXCEPT ![c] = ClearedUserData]
  /\ \E reply \in MessageReplying(edited, "welcome") :
       last' = Said("start", c, reply)
  /\ UNCHANGED <<file, now, media, admin, faults, scope>>

\* select_tariff: query.answer(), then one query.edit_message_text; the one
\* that asks for the name comes after the session has been set.
select_tariff(c, data) ==
  /\ CanDispatch
  /\ \E net \in NetOutcomes :
       IF ~net
         THEN \* await query.answer() raised
              /\ last' = Said("select_tariff", c, "error")
              /\ UNCHANGED user_data
       ELSE IF Len(data) < 2
         THEN /\ \E reply \in Replying("unknown_tariff") :
                   last' = Said("select_tariff", c, reply)
              /\ UNCHANGED user_data
       ELSE \E ld \in LoadOutcomes :
         IF ~check_request_limit(file, c, now, ld)
           THEN /\ \E reply \in Replying("rate_limited") :
                     last' = Said("select_tariff", c, reply)
                /\ UNCHANGED user_data
           ELSE /\ user_data' = [user_data EXCEPT ![c].selected_tariff_key = data[2],
                                                  ![c].order_state = AWAITING_FIO]
                /\ \E reply \in Replying("ask_fio") :
                     last' = Said("select_tariff", c, reply)
  /\ UNCHANGED <<file, now, media, admin, faults, scope>>

\* handle_user_input on a text, new or edited.  With a session state set it
\* reads update.message.text, which raises for an edited text before anything
\* is stored.  Every state is set before the reply that follows it.
handle_user_input(c, text, edited) ==
  LET ud == user_data[c]
      current_state == ud.order_state
      stripped == Strip(text)
  IN /\ CanDispatch
     /\ (current_state = AWAITING_DOB /\ ~edited) => Len(file.rows) < MaxOrders
     /\ IF current_state = NoneS
          THEN /\ last' = Said("handle_user_input", c, "none")
               /\ UNCHANGED <<user_data, file>>
        ELSE IF edited
          THEN /\ last' = Said("handle_user_input", c, "error")
               /\ UNCHANGED <<user_data, file>>
        ELSE IF current_state = AWAITING_FIO
          THEN /\ user_data' = [user_data EXCEPT ![c].fio = stripped,
                                                 ![c].order_state = AWAITING_DOB]
               /\ \E reply \in Replying("ask_dob") :
                    last' = Said("handle_user_input", c, reply)
               /\ UNCHANGED file
        ELSE IF current_state = AWAITING_DOB
          THEN \E ld \in LoadOutcomes, sv \in SaveOutcomes :
               LET ud1 == [ud EXCEPT !.dob = stripped]
                   r == add_request(file, c, Username(c), ud1.selected_tariff_key,
                                    ud1.fio, ud1.dob, now, ld, sv)
               IN /\ file' = r.file
                  /\ IF ~r.ok
                       THEN \* reply_text, then user_data.clear(): a reply
                            \* that raises leaves the session as it is
                            \E net \in NetOutcomes :
                              /\ user_data' = [user_data EXCEPT
                                   ![c] = IF net THEN ClearedUserData ELSE ud1]
                              /\ last' = Log("handle_user_input", c,
                                   IF net THEN "save_error" ELSE "error",
                                   0, 0, "add_request", "waiting_req", FALSE, NoneS)
                       ELSE /\ user_data' = [user_data EXCEPT
                                 ![c] = [ud1 EXCEPT !.order_state = AWAITING_PHOTO]]
                            /\ \E reply \in Replying("ask_photo") :
                                 last' = Log("handle_user_input", c, reply,
                                   0, 0, "add_request", "waiting_req", TRUE, NoneS)
        ELSE /\ last' = Said("handle_user_input", c, "none")
             /\ UNCHANGED <<user_data, file>>
     /\ UNCHANGED <<now, media, admin, faults, scope>>

\* The status of the client's current row as DATA_FILE holds it.
StatusOnDisk(c) == get_order_status(file, c, "ok")

\* handle_all_media taking a photo as the ID photo in any session state
handle_all_media_any_session(c, kind) ==
  \E ld1 \in LoadOutcomes :
  LET status == get_order_status(file, c, ld1)
      current_state == user_data[c].order_state
      is_photo_id_expected == status = "waiting_req"
  IN /\ CanDispatch
     /\ media[c].pc = "idle"
     /\ IF is_photo_id_expected
          THEN IF kind # "photo"
                 THEN /\ \E reply \in Replying("send_as_photo") :
                           last' = Said("handle_all_media", c, reply)
                      /\ UNCHANGED <<user_data, media>>
               ELSE \E ld2 \in LoadOutcomes :
                 LET last_order == get_last_order_for_client(file, c, ld2)
                     complete == /\ last_order # NoRow
                                 /\ TruthyT(last_order.fio)
                                 /\ TruthyT(last_order.dob)
                                 /\ TruthyS(last_order.tariff_text)
                 IN IF ~complete
                      THEN \* reply_text, then order_state = AWAITING_FIO
                           \E net \in NetOutcomes :
                             /\ user_data' = [user_data EXCEPT ![c].order_state =
                                                IF net THEN AWAITING_FIO ELSE @]
                             /\ last' = Said("handle_all_media", c,
                                             IF net THEN "enter_fio_first" ELSE "error")
                             /\ UNCHANGED media
                      ELSE /\ media' = [media EXCEPT ![c] =
                                          [pc |-> "id_photo", status |-> status]]
                           /\ last' = Said("handle_all_media", c, "forwarding")
                           /\ UNCHANGED user_data
        ELSE IF status \in {"waiting_payment", "waiting_confirm"}
          THEN /\ media' = [media EXCEPT ![c] = [pc |-> "proof", status |-> status]]
               /\ last' = Said("handle_all_media", c, "forwarding")
               /\ UNCHANGED user_data
        ELSE /\ \E reply \in Replying("unexpected_media") :
                  last' = Said("handle_all_media", c, reply)
             /\ UNCHANGED <<user_data, media>>
     /\ UNCHANGED <<file, now, admin, faults, scope>>

\* handle_all_media up to its awaited forward to the operator channel.  The
\* handler is registered for filters.PHOTO | filters.Document.ALL, so the
\* message carries a photo or a document.
handle_all_media(c, kind) ==
  \E ld1 \in LoadOutcomes :
  LET status == get_order_status(file, c, ld1)
      current_state == user_data[c].order_state
      is_photo_id_expected == current_state = AWAITING_PHOTO /\ status = "waiting_req"
  IN /\ CanDispatch
     /\ media[c].pc = "idle"
     /\ IF is_photo_id_expected
          THEN IF kind # "photo"
                 THEN /\ \E reply \in Replying("send_as_photo") :
                           last' = Said("handle_all_media", c, reply)
                      /\ UNCHANGED <<user_data, media>>
               ELSE \E ld2 \in LoadOutcomes :
                 LET last_order == get_last_order_for_client(file, c, ld2)
                     complete == /\ last_order # NoRow
                                 /\ TruthyT(last_order.fio)
                                 /\ TruthyT(last_order.dob)
                                 /\ TruthyS(last_order.tariff_text)
                 IN IF ~complete
                      THEN \* reply_text, then order_state = AWAITING_FIO
                           \E net \in NetOutcomes :
                             /\ user_data' = [user_data EXCEPT ![c].order_state =
                                                IF net THEN AWAITING_FIO ELSE @]
                             /\ last' = Said("handle_all_media", c,
                                             IF net THEN "enter_fio_first" ELSE "error")
                             /\ UNCHANGED media
                      ELSE /\ media' = [media EXCEPT ![c] =
                                          [pc |-> "id_photo", status |-> status]]
                           /\ last' = Said("handle_all_media", c, "forwarding")
                           /\ UNCHANGED user_data
        ELSE IF status \in {"waiting_payment", "waiting_confirm"}
          THEN /\ media' = [media EXCEPT ![c] = [pc |-> "proof", status |-> status]]
               /\ last' = Said("handle_all_media", c, "forwarding")
               /\ UNCHANGED user_data
        ELSE /\ \E reply \in Replying("unexpected_media") :
                  last' = Said("handle_all_media", c, reply)
             /\ UNCHANGED <<user_data, media>>
     /\ UNCHANGED <<file, now, admin, faults, scope>>

\* handle_all_media writing the status whether or not the forward returned
handle_all_media_forwarded_eager(c) ==
  LET new_status == IF media[c].pc = "id_photo" THEN "waiting_payment"
                    ELSE "waiting_confirm"
  IN /\ media[c].pc # "idle"
     /\ media' = [media EXCEPT ![c] = IdleMedia]
     /\ \E net \in NetOutcomes, ld \in LoadOutcomes, sv \in SaveOutcomes :
          LET r == update_order_status(file, c, new_status, now, ld, sv)
          IN /\ file' = r.file
             /\ \E reply \in Replying(IF ~net THEN "forward_error"
                                       ELSE IF media[c].pc = "id_photo"
                                         THEN "photo_received"
                                       ELSE "payment_checking") :
                  last' = Log("handle_all_media", c, reply,
                              IF net THEN 1 ELSE 0, 0, "update_order_status",
                              new_status, r.ok, StatusOnDisk(c))
     /\ UNCHANGED <<user_data, now, admin, faults, scope>>

\* handle_all_media writing waiting_confirm after every forward
handle_all_media_forwarded_as_proof(c) ==
  /\ media[c].pc # "idle"
  /\ media' = [media EXCEPT ![c] = IdleMedia]
  /\ \E net \in NetOutcomes :
       IF ~net
         THEN /\ \E reply \in Replying("forward_error") :
                   last' = Said("handle_all_media", c, reply)
              /\ UNCHANGED file
         ELSE \E ld \in LoadOutcomes, sv \in SaveOutcomes :
              LET r == update_order_status(file, c, "waiting_confirm", now, ld, sv)
              IN /\ file' = r.file
                 /\ \E reply \in ReplyingOrElse("payment_checking", "forward_error") :
                      last' = Log("handle_all_media", c, reply,
                                  1, 0, "update_order_status", "waiting_confirm", r.ok,
                                  StatusOnDisk(c))
  /\ UNCHANGED <<user_data, now, admin, faults, scope>>

\* handle_all_media dropping the session when the forward of the ID photo raised
handle_all_media_forwarded_giving_up(c) ==
  LET new_status == IF media[c].pc = "id_photo" THEN "waiting_payment"
                    ELSE "waiting_confirm"
  IN /\ media[c].pc # "idle"
     /\ media' = [media EXCEPT ![c] = IdleMedia]
     /\ \E net \in NetOutcomes :
          IF ~net
            THEN /\ \E reply \in Replying("forward_error") :
                      last' = Said("handle_all_media", c, reply)
                 /\ user_data' = [user_data EXCEPT ![c] =
                                    IF media[c].pc = "id_photo" THEN ClearedUserData ELSE @]
                 /\ UNCHANGED file
            ELSE \E ld \in LoadOutcomes, sv \in SaveOutcomes :
                 LET r == update_order_status(file, c, new_status, now, ld, sv)
                 IN /\ file' = r.file
                    /\ UNCHANGED user_data
                    /\ \E reply \in IF media[c].pc = "id_photo"
                                        THEN Replying("photo_received")
                                      ELSE ReplyingOrElse("payment_checking",
                                                          "forward_error") :
                         last' = Log("handle_all_media", c, reply,
                                     1, 0, "update_order_status", new_status, r.ok,
                                     StatusOnDisk(c))
     /\ UNCHANGED <<now, admin, faults, scope>>

\* handle_all_media from the return of send_photo / send_document on.  The
\* payment-proof branch has the forward, the write and the reply in one try:
\* a reply that raises there ends in the reply of the except branch.  The
\* reply after the write of the ID-photo branch is outside any try.  A reply
\* of an except branch can raise as well: the handler then ends with nothing
\* told ("error").
handle_all_media_forwarded(c) ==
  LET new_status == IF media[c].pc = "id_photo" THEN "waiting_payment"
                    ELSE "waiting_confirm"
  IN /\ media[c].pc # "idle"
     /\ media' = [media EXCEPT ![c] = IdleMedia]
     /\ \E net \in NetOutcomes :
          IF ~net
            THEN \* the forward raised
                 /\ \E reply \in Replying("forward_error") :
                      last' = Said("handle_all_media", c, reply)
                 /\ UNCHANGED file
            ELSE \E ld \in LoadOutcomes, sv \in SaveOutcomes :
                 LET r == update_order_status(file, c, new_status, now, ld, sv)
                 IN /\ file' = r.file
                    /\ \E reply \in IF media[c].pc = "id_photo"
                                        THEN Replying("photo_received")
                                      ELSE ReplyingOrElse("payment_checking",
                                                          "forward_error") :
                         last' = Log("handle_all_media", c, reply,
                                     1, 0, "update_order_status", new_status, r.ok,
                                     StatusOnDisk(c))
     /\ UNCHANGED <<user_data, now, admin, faults, scope>>

\* admin_check letting every chat through
admin_check_open(chat) == TRUE

\* admin_check: chat is update.effective_chat.id, NoneI for no chat.
admin_check(chat) == chat # NoneI /\ chat = ADMIN_CHAT_ID

\* What admin_check tells the chat it turns away: nothing when the update has
\* no chat; otherwise its reply through update.effective_message (there for a
\* new and for an edited message), in a try whose except branch passes: when
\* the reply raises nothing is told and the handler returns all the same.
admin_check_reply(chat) == IF chat = NoneI THEN {"none"} ELSE Replying("admin_only")

\* send_requisites up to its awaited send to the client.
send_requisites(chat, args, edited) ==
  /\ CanDispatch
  /\ IF ~admin_check(chat)
       THEN /\ \E reply \in admin_check_reply(chat) :
                 last' = Said("send_requisites", 0, reply)
            /\ UNCHANGED <<file, admin>>
     ELSE IF Len(args) < 2
       THEN /\ \E reply \in MessageReplying(edited, "usage") :
                 last' = Said("send_requisites", 0, reply)
            /\ UNCHANGED <<file, admin>>
     ELSE IF ~ParseInt(args[1]).ok
       THEN /\ \E reply \in MessageReplying(edited, "id_not_number") :
                 last' = Said("send_requisites", 0, reply)
            /\ UNCHANGED <<file, admin>>
     ELSE \E ld \in LoadOutcomes, sv \in SaveOutcomes :
          LET client_id == ParseInt(args[1]).val
              r == update_order_status(file, client_id, "waiting_payment", now, ld, sv)
          IN /\ file' = r.file
             /\ IF ~r.ok
                  THEN /\ \E reply \in MessageReplying(edited, "not_found") :
                            last' = Log("send_requisites", client_id, reply,
                                        0, 0, "update_order_status", "waiting_payment", FALSE,
                                        StatusOnDisk(client_id))
                       /\ UNCHANGED admin
                  ELSE /\ admin' = [pc |-> "send_requisites", cid |-> client_id,
                                    edited |-> edited]
                       /\ last' = Log("send_requisites", client_id, "sending",
                                      0, 0, "update_order_status", "waiting_payment", TRUE,
                                      StatusOnDisk(client_id))
  /\ UNCHANGED <<user_data, now, media, faults, scope>>

\* confirm_payment up to its awaited send to the client.
confirm_payment(chat, args, edited) ==
  /\ CanDispatch
  /\ IF ~admin_check(chat)
       THEN /\ \E reply \in admin_check_reply(chat) :
                 last' = Said("confirm_payment", 0, reply)
            /\ UNCHANGED <<file, admin>>
     ELSE IF Len(args) < 2
       THEN /\ \E reply \in MessageReplying(edited, "usage") :
                 last' = Said("confirm_payment", 0, reply)
            /\ UNCHANGED <<file, admin>>
     ELSE IF ~ParseInt(args[1]).ok
       THEN /\ \E reply \in MessageReplying(edited, "id_not_number") :
                 last' = Said("confirm_payment", 0, reply)
            /\ UNCHANGED <<file, admin>>
     ELSE \E ld \in LoadOutcomes, sv \in SaveOutcomes :
          LET client_id == ParseInt(args[1]).val
              r == update_order_status(file, client_id, "completed", now, ld, sv)
          IN /\ file' = r.file
             /\ IF ~r.ok
                  THEN /\ \E reply \in MessageReplying(edited, "not_found") :
                            last' = Log("confirm_payment", client_id, reply,
                                        0, 0, "update_order_status", "completed", FALSE,
                                        StatusOnDisk(client_id))
                       /\ UNCHANGED admin
                  ELSE /\ admin' = [pc |-> "confirm_payment", cid |-> client_id,
                                    edited |-> edited]
                       /\ last' = Log("confirm_payment", client_id, "sending",
                                      0, 0, "update_order_status", "completed", TRUE,
                                      StatusOnDisk(client_id))
  /\ UNCHANGED <<user_data, now, media, faults, scope>>

\* send_requisites / confirm_payment from the return of bot.send_message on:
\* the send and the confirmation to the operator are in one try, and the
\* except branch tells the operator that the client could not be reached;
\* when that reply raises too the handler ends with nothing told ("error").
\* Both replies go through update.message: for an edited command the
\* confirmation raises after the client got the message, and the reply of
\* the except branch raises as well.
operator_command_sent ==
  /\ admin.pc # "idle"
  /\ admin' = IdleAdmin
  /\ \E net \in NetOutcomes :
       IF net
         THEN \* the client has the message; the confirmation may raise
              \E reply \in MessageReplyingOrElse(admin.edited, "sent_ok",
                                                  "client_unreachable") :
                last' = Log(admin.pc, admin.cid, reply, 0, 1, NoneS, NoneS, FALSE, NoneS)
         ELSE \* the send to the client raised
              \E reply \in MessageReplying(admin.edited, "client_unreachable") :
                last' = Said(admin.pc, admin.cid, reply)
  /\ UNCHANGED <<file, user_data, now, media, faults, scope>>

\* ------------------------------------------------------ the specifications
Start == \E c \in scope.buyers, edited \in scope.edits : scope.resets /\ start(c, edited)

SelectTariff == \E c \in scope.buyers, data \in scope.data : select_tariff(c, data)

HandleUserInput ==
  \E c \in scope.buyers, edited \in scope.edits :
    \E text \in MsgTexts(user_data[c].order_state) : handle_user_input(c, text, edited)

HandleAllMedia ==
  \E c \in scope.buyers, kind \in MediaKinds : scope.media /\ handle_all_media(c, kind)

HandleAllMediaForwarded == \E c \in scope.buyers : handle_all_media_forwarded(c)

SendRequisites ==
  \E cmd \in scope.commands, edited \in scope.edits :
    send_requisites(cmd[1], cmd[2], edited)

ConfirmPayment ==
  \E cmd \in scope.commands, edited \in scope.edits :
    confirm_payment(cmd[1], cmd[2], edited)

OperatorCommandSent == operator_command_sent

Next ==
  \/ Tick
  \/ Restart
  \/ Start
  \/ SelectTariff
  \/ HandleUserInput
  \/ HandleAllMedia
  \/ HandleAllMediaForwarded
  \/ SendRequisites
  \/ ConfirmPayment
  \/ OperatorCommandSent

\* Every awaited call returns and DATA_FILE is readable and writable.
Spec == Init /\ [][Next]_vars

\* Awaited Telegram calls may raise; DATA_FILE is readable and writable.
SpecNet == InitNet /\ [][Next]_vars

\* DATA_FILE may fail to read; it is writable and every awaited call returns.
SpecUnreadable == InitUnreadable /\ [][Next]_vars

\* Awaited Telegram calls may raise and DATA_FILE may fail to read or write.
SpecFaulty == InitFaulty /\ [][Next]_vars

\* ------------------------------------------------------------ properties
\* The rows of a client in DATA_FILE, and the client's current row: the one
\* appended last.
RowsOf(f, c) == {j \in 1..Len(f.rows) : f.rows[j].client_id = ToString(c)}
CurrentIndex(f, c) ==
  IF RowsOf(f, c) = {} THEN 0
  ELSE CHOOSE j \in RowsOf(f, c) : \A k \in RowsOf(f, c) : k <= j

StatusSlots == {"status", "status_updated_at"}

\* C1: status updates are applied one after another, each to the ledger the
\* previous one left: a successful update_order_status for a client leaves the
\* number of rows as it was, changes no row but the client's current one,
\* changes in that row only status and status_updated_at, and leaves the
\* client's status at the status it was called with.
C1_UpdateWritesOnlyTheCurrentRow ==
  [][(last'.call = "update_order_status" /\ last'.ok) =>
       LET i == CurrentIndex(file, last'.cid)
       IN /\ i > 0
          /\ file'.valid
          /\ Len(file'.rows) = Len(file.rows)
          /\ \A j \in 1..Len(file.rows) : j # i => file'.rows[j] = file.rows[j]
          /\ DOMAIN file'.rows[i] = DOMAIN file.rows[i] \cup StatusSlots
          /\ \A k \in DOMAIN file.rows[i] \ StatusSlots :
                file'.rows[i][k] = file.rows[i][k]
          /\ file'.rows[i].status = last'.upd
          /\ get_order_status(file', last'.cid, "ok") = last'.upd]_vars

\* The second of two updates of a row has been applied on top of the first,
\* with another client's row in the ledger.
C1_Witness ==
  /\ last.op = "confirm_payment" /\ last.call = "update_order_status" /\ last.ok
  /\ last.old = "waiting_payment"
  /\ StatusOnDisk(last.cid) = "completed"
  /\ \E c \in Clients : c # last.cid /\ StatusOnDisk(c) = "waiting_req"

\* C2: while handle_all_media waits for its forward to the operator channel,
\* between its read of the status and its write, no other update is handled:
\* the status in DATA_FILE is the one the handler read, so the handler writes
\* waiting_payment or waiting_confirm only on top of the status it observed.
C2_MediaHandlerSeesNoForeignWrite ==
  \A c \in Clients : media[c].pc # "idle" => StatusOnDisk(c) = media[c].status

\* A photo handler is between its read and its write while the operator, who
\* could send a command for the same client, is there.
C2_Witness ==
  /\ scope.commands # {}
  /\ media[1].pc = "id_photo" /\ media[1].status = "waiting_req"
  /\ StatusOnDisk(1) = "waiting_req"

\* C3: get_last_order_for_client gives the row appended last for the client,
\* whatever rows of other clients lie before, between or after the client's
\* rows, and None exactly when the client has no row: after an append for a
\* client it gives the row just appended, and what it gives for every other
\* client is what it gave before.
C3_LastOrderIsTheLastAppended ==
  /\ [](\A c \in Clients :
          /\ get_last_order_for_client(file, c, "ok") = NoRow <=> RowsOf(file, c) = {}
          /\ RowsOf(file, c) # {} =>
                get_last_order_for_client(file, c, "ok") = file.rows[CurrentIndex(file, c)])
  /\ [][(last'.call = "add_request" /\ last'.ok) =>
          /\ Len(file'.rows) = Len(file.rows) + 1
          /\ file'.rows[Len(file'.rows)].client_id = ToString(last'.cid)
          /\ get_last_order_for_client(file', last'.cid, "ok") = file'.rows[Len(file'.rows)]
          /\ \A c \in Clients \ {last'.cid} :
                get_last_order_for_client(file', c, "ok") =
                  get_last_order_for_client(file, c, "ok")]_vars

\* A client's second row has been appended, at a later instant, after a row
\* of another client that follows the client's first.
C3_Witness ==
  /\ last.call = "add_request" /\ last.ok
  /\ Len(file.rows) = 3
  /\ file.rows[1].client_id = file.rows[3].client_id
  /\ file.rows[2].client_id # file.rows[3].client_id
  /\ file.rows[1].created_at # file.rows[3].created_at

\* The client's rows created strictly later than an hour before t.
RecentRows(f, c, t) ==
  {j \in RowsOf(f, c) : parse_iso_datetime(GetTime(f.rows[j], "created_at")) > t - Hour}

\* C4: check_request_limit admits a client exactly when fewer than
\* MAX_REQUESTS_PER_HOUR of the client's own rows were created strictly later
\* than one hour before now; a row created exactly one hour ago is not
\* counted, and rows of other clients are not counted.  select_tariff with a
\* known tariff goes on to ask for the name exactly when the client is
\* admitted.
C4_AdmitsBelowTheCeiling ==
  /\ \A c \in Clients :
        check_request_limit(file, c, now, "ok")
          <=> Cardinality(RecentRows(file, c, now)) < MAX_REQUESTS_PER_HOUR
  /\ (last.op = "select_tariff" /\ last.reply \in {"ask_fio", "rate_limited"}) =>
        (last.reply = "ask_fio"
           <=> Cardinality(RecentRows(file, last.cid, now)) < MAX_REQUESTS_PER_HOUR)

\* A client with MAX_REQUESTS_PER_HOUR rows, one of them created exactly one
\* hour ago, has been admitted while another client has a row.
C4_Witness ==
  /\ last.op = "select_tariff" /\ last.reply = "ask_fio"
  /\ Cardinality(RowsOf(file, last.cid)) = MAX_REQUESTS_PER_HOUR
  /\ \E j \in RowsOf(file, last.cid) :
        parse_iso_datetime(GetTime(file.rows[j], "created_at")) = now - Hour
  /\ \E c \in Clients : c # last.cid /\ RowsOf(file, c) # {}

\* C5: the order flow appends one row, at its last step.  The ledger grows
\* only when text arrives in awaiting_dob; with a working ledger a text
\* message sent in awaiting_dob (a new message, not an edit of an earlier one)
\* appends exactly one row for the client, after the rows there were, with
\* status waiting_req, the tariff key staged by the selection, the tariff
\* text TARIFFS has for it, the staged name and the text just received as
\* date, and leaves the session in awaiting_photo.  The selection of a tier
\* and the name before it stage their values without touching the ledger.
C5_OrderFlowAppendsOneRow ==
  /\ [](\A c \in Clients :
          user_data[c].order_state \in {AWAITING_DOB, AWAITING_PHOTO} =>
            /\ user_data[c].selected_tariff_key # NoneS
            /\ user_data[c].fio # NoneT /\ user_data[c].fio # <<>>)
  /\ [][file' # file /\ Len(file'.rows) # Len(file.rows) =>
          /\ last'.op = "handle_user_input"
          /\ user_data[last'.cid].order_state = AWAITING_DOB]_vars
  /\ [][\A c \in Clients, text \in MsgTexts(AWAITING_DOB) :
          (/\ last'.op = "handle_user_input" /\ last'.cid = c
           /\ user_data[c].order_state = AWAITING_DOB
           /\ handle_user_input(c, text, FALSE)) =>
          LET n == Len(file.rows)
              row == file'.rows[n + 1]
          IN /\ Len(file'.rows) = n + 1
             /\ SubSeq(file'.rows, 1, n) = file.rows
             /\ row.client_id = ToString(c)
             /\ row.status = "waiting_req"
             /\ row.tariff_key = user_data[c].selected_tariff_key
             /\ row.tariff_key \in DOMAIN TARIFFS =>
                   row.tariff_text = TARIFFS[row.tariff_key]
             /\ row.fio = user_data[c].fio
             /\ row.dob = user_data'[c].dob
             /\ row.dob # NoneT /\ row.dob # <<>>
             /\ user_data'[c].order_state = AWAITING_PHOTO]_vars

\* The flow has just ended for tier 30_days, name "JD" and date "90", with the
\* session in awaiting_photo and the row as the client's only one.
C5_Witness ==
  /\ last.op = "handle_user_input" /\ last.reply = "ask_photo" /\ last.cid = 1
  /\ user_data[1].order_state = AWAITING_PHOTO
  /\ Cardinality(RowsOf(file, 1)) = 1
  /\ LET row == file.rows[CurrentIndex(file, 1)]
     IN /\ row.tariff_key = "30_days" /\ row.tariff_text = TARIFFS["30_days"]
        /\ row.fio = <<"J", "D">> /\ row.dob = <<"9", "0">>
        /\ row.status = "waiting_req"

\* The current row of the client has name, date and tariff text.
CompleteRow(c) ==
  /\ RowsOf(file, c) # {}
  /\ LET row == file.rows[CurrentIndex(file, c)]
     IN TruthyT(row.fio) /\ TruthyT(row.dob) /\ TruthyS(row.tariff_text)

\* C6: with every awaited call returning, a photo that arrives while the
\* session is awaiting_photo and the current row is waiting_req with name,
\* date and tariff text is forwarded: the handler goes to its send_photo
\* without writing, and on the return of send_photo exactly one photo has
\* been forwarded and the current row is waiting_payment.
C6_PhotoForwardedOnce ==
  /\ [][\A c \in Clients :
          (/\ last'.op = "handle_all_media" /\ last'.cid = c
           /\ user_data[c].order_state = AWAITING_PHOTO
           /\ StatusOnDisk(c) = "waiting_req"
           /\ CompleteRow(c)
           /\ handle_all_media(c, "photo")) =>
            /\ media'[c].pc = "id_photo"
            /\ last'.fwd = 0
            /\ file' = file]_vars
  /\ [][\A c \in Clients :
          (media[c].pc = "id_photo" /\ media'[c].pc = "idle") =>
            /\ last'.op = "handle_all_media" /\ last'.cid = c
            /\ last'.fwd = 1
            /\ last'.old = "waiting_req"
            /\ get_order_status(file', c, "ok") = "waiting_payment"]_vars

\* The photo of a complete waiting_req order has been forwarded.
C6_Witness ==
  /\ last.op = "handle_all_media" /\ last.reply = "photo_received"
  /\ last.fwd = 1 /\ last.old = "waiting_req"
  /\ user_data[last.cid].order_state = AWAITING_PHOTO
  /\ StatusOnDisk(last.cid) = "waiting_payment"
  /\ CompleteRow(last.cid)

\* C7: send_requisites and confirm_payment from the operator channel with a
\* client id that is not a number, or the id of a client without a row (with
\* or without the text that follows the id), leave DATA_FILE and the sessions
\* as they are, start no send to the client and send nothing to it, and the
\* operator receives the diagnostic reply: the usage line when the text is
\* missing, else that the id is not a number or that no order was found.
C7_OperatorCommandFailsClean ==
  [][\A args \in ArgLists, edited \in BOOLEAN :
       (/\ last'.op \in {"send_requisites", "confirm_payment"}
        /\ \/ ~ParseInt(args[1]).ok
           \/ RowsOf(file, ParseInt(args[1]).val) = {}
        /\ \/ send_requisites(ADMIN_CHAT_ID, args, edited)
           \/ confirm_payment(ADMIN_CHAT_ID, args, edited)) =>
         /\ file' = file
         /\ user_data' = user_data
         /\ admin' = IdleAdmin
         /\ last'.sent = 0 /\ last'.fwd = 0
         /\ last'.reply = IF Len(args) < 2 THEN "usage"
                          ELSE IF ParseInt(args[1]).ok THEN "not_found"
                          ELSE "id_not_number"]_vars

\* status_updated_at of the client's current row, NoneI when it has none
StampOf(f, c) ==
  IF RowsOf(f, c) = {} THEN NoneI
  ELSE parse_iso_datetime(GetTime(f.rows[CurrentIndex(f, c)], "status_updated_at"))

\* C8: send_requisites from the operator channel for a client with a row
\* succeeds every time it is given, the second time as the first: it leaves
\* the current row waiting_payment with status_updated_at at the instant of
\* the command, never earlier than the status_updated_at it replaces.
C8_SendRequisitesRepeats ==
  [][(last'.op = "send_requisites" /\ last'.call = "update_order_status"
        /\ RowsOf(file, last'.cid) # {}) =>
       /\ last'.ok /\ last'.reply = "sending"
       /\ admin'.pc = "send_requisites" /\ admin'.cid = last'.cid
       /\ get_order_status(file', last'.cid, "ok") = "waiting_payment"
       /\ StampOf(file', last'.cid) = now
       /\ StampOf(file', last'.cid) >= StampOf(file, last'.cid)]_vars

\* The second of two send_requisites for a client who sends nothing, given
\* at a later instant than the first.
C8_Witness ==
  /\ last.op = "send_requisites" /\ last.ok /\ last.cid = 2
  /\ last.old = "waiting_payment"
  /\ StatusOnDisk(2) = "waiting_payment"
  /\ StampOf(file, 2) = 1
  /\ now = 1

\* The status an operator command writes
TargetStatus(op) == IF op = "send_requisites" THEN "waiting_payment" ELSE "completed"

\* C9: send_requisites and confirm_payment write the status before
\* they send to the client, a failure of the send never reverts it, and after
\* a failed delivery the operator is told of the failure.
C9_SendFailureAlwaysReported ==
  /\ [](admin.pc # "idle" => StatusOnDisk(admin.cid) = TargetStatus(admin.pc))
  /\ [][(admin.pc # "idle" /\ admin'.pc = "idle") =>
          /\ file' = file
          /\ get_order_status(file', admin.cid, "ok") = TargetStatus(admin.pc)
          /\ last'.sent = 0 => last'.reply = "client_unreachable"]_vars

\* C10: when add_request fails on the text that arrives in awaiting_dob, the
\* session of the client is cleared: it is neither left in awaiting_dob nor
\* taken to awaiting_photo, and no staged field is kept.
C10_AppendFailureClearsSession ==
  [][(last'.op = "handle_user_input" /\ last'.call = "add_request" /\ ~last'.ok) =>
       user_data'[last'.cid] = ClearedUserData]_vars

\* The slots of a row that no status update writes
SameRecord(r1, r2) ==
  /\ DOMAIN r1 \ StatusSlots = DOMAIN r2 \ StatusSlots
  /\ \A k \in DOMAIN r1 \ StatusSlots : r1[k] = r2[k]

\* C11: the ledger is append-only, also when DATA_FILE fails to read: no step
\* makes the number of rows smaller, every row stays at its place as the
\* record it was (status and status_updated_at apart), and a successful
\* add_request leaves the rows there were and puts one row after them.
C11_LedgerIsAppendOnly ==
  [][/\ Len(file'.rows) >= Len(file.rows)
     /\ \A j \in 1..Len(file.rows) : SameRecord(file.rows[j], file'.rows[j])
     /\ (last'.call = "add_request" /\ last'.ok) =>
          /\ Len(file'.rows) = Len(file.rows) + 1
          /\ SubSeq(file'.rows, 1, Len(file.rows)) = file.rows]_vars

\* C12: a save that fails is all-or-nothing: when the ledger call of a handler
\* (add_request or update_order_status) returns False, DATA_FILE holds what it
\* held before the call.
C12_FailedSaveLeavesFile ==
  [][(last'.call # NoneS /\ ~last'.ok) => file' = file]_vars

\* C13: send_requisites and confirm_payment from a chat other than
\* ADMIN_CHAT_ID, with any argument list, end at admin_check: DATA_FILE and
\* every session stay as they are, no send to a client is started and none
\* is made, whether the command is a new message or an edited one.
C13_ForeignChatCommandDoesNothing ==
  [][\A chat \in Chats \ {ADMIN_CHAT_ID}, args \in ArgLists, edited \in BOOLEAN :
       (/\ last'.op \in {"send_requisites", "confirm_payment"}
        /\ \/ send_requisites(chat, args, edited)
           \/ confirm_payment(chat, args, edited)) =>
         /\ file' = file
         /\ user_data' = user_data
         /\ admin' = IdleAdmin
         /\ last'.sent = 0 /\ last'.fwd = 0
         /\ last'.call = NoneS
         /\ last'.reply = "admin_only"]_vars

\* confirm_payment from a foreign chat has been turned away while the ledger
\* holds a row the operator has set to waiting_payment.
C13_Witness ==
  /\ last.op = "confirm_payment" /\ last.reply = "admin_only"
  /\ admin = IdleAdmin
  /\ StatusOnDisk(2) = "waiting_payment"

\* The ID-photo branch of handle_all_media applies
IdPhotoExpected(c) ==
  user_data[c].order_state = AWAITING_PHOTO /\ StatusOnDisk(c) = "waiting_req"

\* C14: a photo or a document that arrives while the current row is
\* waiting_payment or waiting_confirm, the ID-photo branch not applying, is
\* forwarded to the operator channel before anything is written.  When the
\* forward returns, one proof has been forwarded and the row is
\* waiting_confirm; when it raises, nothing has been forwarded, DATA_FILE is
\* as it was and the handler ends in the reply of its except branch (the
\* buyer is told that sending failed, unless that reply raises too).
C14_ProofForwardedThenConfirm ==
  /\ [][\A c \in Clients, kind \in MediaKinds :
          (/\ last'.op = "handle_all_media" /\ last'.cid = c
           /\ StatusOnDisk(c) \in {"waiting_payment", "waiting_confirm"}
           /\ ~IdPhotoExpected(c)
           /\ handle_all_media(c, kind)) =>
            /\ media'[c] = [pc |-> "proof", status |-> StatusOnDisk(c)]
            /\ last'.fwd = 0
            /\ file' = file]_vars
  /\ [][\A c \in Clients :
          (media[c].pc = "proof" /\ media'[c].pc = "idle") =>
            /\ last'.op = "handle_all_media" /\ last'.cid = c
            /\ \/ /\ last'.fwd = 1
                  /\ last'.call = "update_order_status" /\ last'.ok
                  /\ get_order_status(file', c, "ok") = "waiting_confirm"
               \/ /\ last'.fwd = 0
                  /\ last'.call = NoneS
                  /\ last'.reply \in {"forward_error", "error"}
                  /\ file' = file]_vars

\* The forward of a proof has raised: the row is waiting_payment as before.
C14_Witness ==
  /\ last.op = "handle_all_media" /\ last.reply = "forward_error"
  /\ last.fwd = 0
  /\ media[last.cid].pc = "idle"
  /\ StatusOnDisk(last.cid) = "waiting_payment"

\* C15: when the ID photo of a complete waiting_req order has been forwarded
\* and the row set to waiting_payment, the session of the client is none.
C15_SessionNoneAfterPhoto ==
  [][\A c \in Clients :
       (/\ media[c].pc = "id_photo" /\ media'[c].pc = "idle"
        /\ last'.fwd = 1 /\ last'.ok
        /\ get_order_status(file', c, "ok") = "waiting_payment") =>
         user_data'[c].order_state = NoneS]_vars

\* C16: a tier selection that check_request_limit denies leaves the session
\* of the client none, whatever it was, and appends no row.
C16_DeniedSelectionResetsSession ==
  [][(last'.op = "select_tariff" /\ last'.reply = "rate_limited") =>
       /\ user_data'[last'.cid].order_state = NoneS
       /\ file' = file]_vars

\* The client's rows whose created_at is absent or does not parse.
UnstampedRows(f, c) ==
  {j \in RowsOf(f, c) : parse_iso_datetime(GetTime(f.rows[j], "created_at")) = NoneI}

RECURSIVE Without(_, _)
Without(rows, js) ==
  IF rows = <<>> THEN <<>>
  ELSE LET rest == Without(SubSeq(rows, 1, Len(rows) - 1), js)
       IN IF Len(rows) \in js THEN rest ELSE Append(rest, rows[Len(rows)])

\* C17: the rate limiter fails open.  A row of the client whose created_at
\* is missing or malformed is skipped (the verdict is the one the ledger
\* without these rows gets, so the rows after it are still scanned and
\* counted); a ledger that cannot be read admits the client; and a tier
\* selection is denied only when MAX_REQUESTS_PER_HOUR rows of the client
\* with a readable created_at are within the hour.
C17_RateLimiterFailsOpen ==
  /\ \A c \in Clients :
       /\ check_request_limit(file, c, now, "ok")
            = check_request_limit([file EXCEPT !.rows = Without(@, UnstampedRows(file, c))],
                                  c, now, "ok")
       /\ check_request_limit(file, c, now, "fail")
  /\ (last.op = "select_tariff" /\ last.reply = "rate_limited") =>
       Cardinality(RecentRows(file, last.cid, now) \ UnstampedRows(file, last.cid))
         >= MAX_REQUESTS_PER_HOUR

\* A client holding MAX_REQUESTS_PER_HOUR rows, all of them within the hour
\* but for one without a readable created_at, has been admitted from a
\* ledger that was read.
C17_Witness ==
  /\ last.op = "select_tariff" /\ last.reply = "ask_fio"
  /\ file.valid
  /\ Cardinality(RowsOf(file, last.cid)) = MAX_REQUESTS_PER_HOUR
  /\ Cardinality(UnstampedRows(file, last.cid)) = 1
  /\ Cardinality(RecentRows(file, last.cid, now)) = MAX_REQUESTS_PER_HOUR - 1

\* C18: media that arrives when neither the ID-photo precondition (session
\* awaiting_photo and current status waiting_req) nor the payment-proof
\* precondition (current status waiting_payment or waiting_confirm) holds
\* changes neither a session nor DATA_FILE, starts no forward to the operator
\* channel, and is answered with the prompt to start over.
C18_UnexpectedMediaChangesNothing ==
  [][\A c \in Clients, kind \in MediaKinds :
       (/\ last'.op = "handle_all_media" /\ last'.cid = c
        /\ ~IdPhotoExpected(c)
        /\ StatusOnDisk(c) \notin {"waiting_payment", "waiting_confirm"}
        /\ handle_all_media(c, kind)) =>
         /\ user_data' = user_data
         /\ file' = file
         /\ media' = media
         /\ last'.fwd = 0 /\ last'.call = NoneS
         /\ last'.reply = "unexpected_media"]_vars

\* Media has been answered with the prompt to start over while the client's
\* row is waiting_req and the session is gone.
C18_Witness ==
  /\ last.op = "handle_all_media" /\ last.reply = "unexpected_media"
  /\ StatusOnDisk(last.cid) = "waiting_req"
  /\ user_data[last.cid].order_state = NoneS
  /\ media[last.cid] = IdleMedia

\* C19: send_requisites from the operator channel succeeds for a client whose
\* current row is in any status (waiting_req, waiting_payment,
\* waiting_confirm or completed) and leaves that row waiting_payment, its
\* other fields and every other row as they were: waiting_confirm and
\* completed are not final.
C19_SendRequisitesFromAnyStatus ==
  [][\A cmd \in OperatorCommands, edited \in BOOLEAN :
       LET cid == ParseInt(cmd[2][1]).val
           i == CurrentIndex(file, cid)
       IN (/\ last'.op = "send_requisites"
           /\ StatusOnDisk(cid) \in {"waiting_req", "waiting_payment",
                                     "waiting_confirm", "completed"}
           /\ send_requisites(cmd[1], cmd[2], edited)) =>
            /\ last'.op = "send_requisites" /\ last'.ok /\ last'.reply = "sending"
            /\ last'.old = StatusOnDisk(cid)
            /\ Len(file'.rows) = Len(file.rows)
            /\ file'.rows[i].status = "waiting_payment"
            /\ SameRecord(file.rows[i], file'.rows[i])
            /\ \A j \in 1..Len(file.rows) : j # i => file'.rows[j] = file.rows[j]]_vars

\* send_requisites has put a completed row back to waiting_payment.
C19_Witness ==
  /\ last.op = "send_requisites" /\ last.ok
  /\ last.old = "completed"
  /\ StatusOnDisk(last.cid) = "waiting_payment"

\* The instants a trailing one-hour window can end at: the window that ends
\* at t holds the rows created later than t - Hour and not later than t.
Instants == 0..MaxTime

\* C20: every row appended for a client is preceded by its own admission by
\* check_request_limit: whatever the buyers send, the rows of one client
\* created within any trailing one-hour window never number more than
\* MAX_REQUESTS_PER_HOUR.
C20_RowsPerHourWithinCeiling ==
  \A c \in Clients, t \in Instants :
    Cardinality({j \in RecentRows(file, c, t) :
                   parse_iso_datetime(GetTime(file.rows[j], "created_at")) <= t})
      <= MAX_REQUESTS_PER_HOUR

\* C21: when the forward of the ID photo to the operator channel raises, the
\* handler stops before any status write: DATA_FILE is as it was, the current
\* row is still a complete waiting_req row and the session is still
\* awaiting_photo, so a photo sent again is taken as the ID photo again.  A
\* step of handle_all_media makes a row waiting_payment only when its forward
\* has returned.
C21_FailedPhotoForwardKeepsOrder ==
  /\ [][\A c \in Clients :
          (media[c].pc = "id_photo" /\ media'[c].pc = "idle" /\ last'.fwd = 0) =>
            /\ last'.op = "handle_all_media"
            /\ last'.reply \in {"forward_error", "error"}
            /\ last'.call = NoneS
            /\ file' = file
            /\ user_data' = user_data
            /\ IdPhotoExpected(c)'
            /\ CompleteRow(c)'
            /\ CanDispatch']_vars
  /\ [][(/\ last'.op = "handle_all_media"
         /\ StatusOnDisk(last'.cid) # "waiting_payment"
         /\ get_order_status(file', last'.cid, "ok") = "waiting_payment") =>
          /\ media[last'.cid].pc = "id_photo"
          /\ last'.fwd = 1]_vars

\* The forward of the ID photo of a complete waiting_req order has raised.
C21_Witness ==
  /\ last.op = "handle_all_media" /\ last.reply = "forward_error"
  /\ last.fwd = 0 /\ last.call = NoneS
  /\ media[last.cid] = IdleMedia
  /\ IdPhotoExpected(last.cid)
  /\ CompleteRow(last.cid)

====
